---------------------------- MODULE Spec2Model ----------------------------
(***************************************************************************)
(* A model of the cant-stop-1d solver: the expression algebra of           *)
(* src/src/expr.rs (Sum / Min trees, eval, bisect, +, *, /) and the        *)
(* position solver of src/src/main.rs (State, Solver::dfs_a / dfs_b with   *)
(* its memo table, solve and strategy).                                    *)
(*                                                                         *)
(* Numbers.  The program computes in f64.  TLC has 32-bit integers only,   *)
(* so an f64 is modelled as a fixed-point number: the integer v stands for *)
(* v / Scale.  Addition, subtraction, comparison and halving/doubling are  *)
(* exact (as they are in f64 for the magnitudes reached here);             *)
(* multiplication and division round to the nearest representable value,   *)
(* as f64 does.  The two tolerances of the program keep their order but    *)
(* not their magnitude: BisectTol stands for 1e-12 (the loop bound of      *)
(* Expr::bisect) and FixTol for 1e-6 (the bound the test asserts).         *)
(***************************************************************************)
EXTENDS Integers, Sequences, FiniteSets, TLC

\* ------------------------------------------------------------- numbers

\* Units per 1.0: the resolution of the modelled f64.
Scale == 2 ^ 10

\* The f64 literal n.0 for an integer n (opts.dice as f64, 1.0, 0.0, ...).
F(n) == n * Scale

\* 0.5, the first lower bracket of bisect.
Half == Scale \div 2

\* Expr::bisect's loop bound 1e-12, scaled: a few units of resolution.
BisectTol == 2 ^ 1

\* The bound 1e-6 of tests::bisect, scaled: 1e-6 is the square root of 1e-12,
\* FixTol is the same number of binary orders above BisectTol as BisectTol
\* is above one unit of resolution, times a margin.
FixTol == 2 ^ 5

\* n / d rounded to the nearest integer, ties away from zero (d > 0).
RoundDiv(n, d) ==
  IF n >= 0 THEN (n + d \div 2) \div d
            ELSE -(((-n) + d \div 2) \div d)

\* f64 multiplication a * b.
FMul(a, b) == RoundDiv(a * b, Scale)

\* f64 division a / b, b # 0.
FDiv(a, b) ==
  IF b > 0 THEN RoundDiv(a * Scale, b) ELSE RoundDiv(-(a * Scale), -b)

Abs(a) == IF a >= 0 THEN a ELSE -a

\* --------------------------------------------------------- expressions

\* Expr::Sum { one, zero, nonlinear }
SumE(one, zero, nonlinear) ==
  [tag |-> "Sum", one |-> one, zero |-> zero, nonlinear |-> nonlinear]

\* Expr::Min { a, b }
MinE(a, b) == [tag |-> "Min", a |-> a, b |-> b]

\* Expr::constant
constant(a) == SumE(0, a, <<>>)

\* Expr::self_consistent
self_consistent(x) == SumE(x, 0, <<>>)

\* Expr::min
min(self, other) == MinE(self, other)

RECURSIVE eval(_, _)
RECURSIVE SumEval(_, _, _)

\* nonlinear.iter().map(|e| e.eval(x)).sum::<f64>(), from index i on
SumEval(nonlinear, i, x) ==
  IF i > Len(nonlinear) THEN 0
  ELSE eval(nonlinear[i], x) + SumEval(nonlinear, i + 1, x)

\* Expr::eval
eval(e, x) ==
  IF e.tag = "Sum"
    THEN FMul(e.one, x) + e.zero + SumEval(e.nonlinear, 1, x)
    ELSE LET a == eval(e.a, x)
             b == eval(e.b, x)
         IN  IF a <= b THEN a ELSE b

\* Sum + Sum that forgets the right operand's children.
addDropsChildren(self, rhs) ==
  IF self.tag = "Sum"
    THEN IF rhs.tag = "Sum"
           THEN SumE(self.one + rhs.one, self.zero + rhs.zero, self.nonlinear)
           ELSE SumE(self.one, self.zero, Append(self.nonlinear, rhs))
    ELSE IF rhs.tag = "Sum"
           THEN SumE(rhs.one, rhs.zero, Append(rhs.nonlinear, self))
           ELSE SumE(0, 0, <<self, rhs>>)

\* impl Add<Expr> for Expr
add(self, rhs) ==
  IF self.tag = "Sum"
    THEN IF rhs.tag = "Sum"
           THEN SumE(self.one + rhs.one, self.zero + rhs.zero,
                     self.nonlinear \o rhs.nonlinear)
           ELSE SumE(self.one, self.zero, Append(self.nonlinear, rhs))
    ELSE IF rhs.tag = "Sum"
           THEN SumE(rhs.one, rhs.zero, Append(rhs.nonlinear, self))
           ELSE SumE(0, 0, <<self, rhs>>)

RECURSIVE mul(_, _)
\* impl Mul<f64> for Expr
mul(self, rhs) ==
  IF self.tag = "Sum"
    THEN SumE(FMul(self.one, rhs), FMul(self.zero, rhs),
              [i \in 1..Len(self.nonlinear) |-> mul(self.nonlinear[i], rhs)])
    ELSE MinE(mul(self.a, rhs), mul(self.b, rhs))

RECURSIVE div(_, _)
\* A division that does not reach the children of a Sum.
divShallow(self, rhs) ==
  IF self.tag = "Sum"
    THEN SumE(FDiv(self.one, rhs), FDiv(self.zero, rhs), self.nonlinear)
    ELSE MinE(div(self.a, rhs), div(self.b, rhs))

\* impl Div<f64> for Expr
div(self, rhs) ==
  IF self.tag = "Sum"
    THEN SumE(FDiv(self.one, rhs), FDiv(self.zero, rhs),
              [i \in 1..Len(self.nonlinear) |-> div(self.nonlinear[i], rhs)])
    ELSE MinE(div(self.a, rhs), div(self.b, rhs))

\* ------------------------------------------------------------- bisect

\* self.eval(lo) < lo, the test of the first loop
LoContinues(e, lo) == eval(e, lo) < lo

\* The upper bracket is never raised: the second loop is skipped.
HiNeverContinues(e, hi) == FALSE

\* hi < self.eval(hi), the test of the second loop
HiContinues(e, hi) == hi < eval(e, hi)

\* The third loop with a tolerance far too loose (a quarter).
SearchContinuesLoose(lo, hi) == hi - lo > Scale \div 4

\* hi - lo > 1e-12, the test of the third loop
SearchContinues(lo, hi) == hi - lo > BisectTol

\* while self.eval(lo) < lo { lo /= 2.0 }
BracketLo(e, lo0) ==
  LET loop[lo \in Int] == IF LoContinues(e, lo) THEN loop[lo \div 2] ELSE lo
  IN  loop[lo0]

\* while hi < self.eval(hi) { hi *= 2.0 }
BracketHi(e, hi0) ==
  LET loop[hi \in Int] == IF HiContinues(e, hi) THEN loop[hi * 2] ELSE hi
  IN  loop[hi0]

\* SearchStep with the comparison turned round (v > mid): the search then
\* moves away from the fixed point.
SearchStepFlipped(e, lo, hi) ==
  LET mid == (hi + lo) \div 2
      v   == eval(e, mid)
  IN  IF v > mid THEN <<lo, mid>> ELSE <<mid, hi>>

\* One iteration of the binary search: <<lo, hi>> after it.
SearchStep(e, lo, hi) ==
  LET mid == (hi + lo) \div 2
      v   == eval(e, mid)
  IN  IF v < mid THEN <<lo, mid>> ELSE <<mid, hi>>

\* while hi - lo > 1e-12 { ... }; hi.  The loop is a function of the pair
\* <<lo, hi>>, so that each iteration works on values.
Search(e, lo0, hi0) ==
  LET loop[p \in Int \X Int] ==
        IF SearchContinues(p[1], p[2])
          THEN loop[SearchStep(e, p[1], p[2])]
          ELSE p[2]
  IN  loop[<<lo0, hi0>>]

\* Expr::bisect
bisect(e) == Search(e, BracketLo(e, Half), BracketHi(e, F(1)))

\* ---------------------------------------------------------------- State

\* Bounds of the configurations explored: opts.dice in 1..MaxDice and
\* opts.goal in 1..MaxGoal.
MaxDice == 3
MaxGoal == 4

\* Option<u32>: None is the empty sequence, Some(k) is <<k>>.
None == <<>>
Some(k) == <<k>>
is_none(o) == o = <<>>
is_some(o) == o # <<>>
unwrap(o) == o[1]

\* State::new
StateNew(original_pos) ==
  [original_pos |-> original_pos, pos |-> original_pos, dice |-> None]

\* State::dice
StateDice(self, dice) ==
  [original_pos |-> self.original_pos,
   pos |-> self.original_pos + dice,
   dice |-> Some(dice)]

\* go_success that forgets to advance: pos stays where it is.
go_success_stuck(self) ==
  [original_pos |-> self.original_pos, pos |-> self.pos, dice |-> self.dice]

\* State::go_success
go_success(self) ==
  [original_pos |-> self.original_pos,
   pos |-> self.pos + unwrap(self.dice),
   dice |-> self.dice]

\* stop that keeps the pending die.
StateStopKeepsDice(self) ==
  [original_pos |-> self.pos, pos |-> self.pos, dice |-> self.dice]

\* State::stop
StateStop(self) ==
  [original_pos |-> self.pos, pos |-> self.pos, dice |-> None]

\* --------------------------------------------------------------- Solver

VARIABLES
  opts,      \* Solver.opts: [dice, goal]
  mem,       \* Solver.mem: a function from the solved positions to values
  stack,     \* the call stack: frames of solve, strategy, dfs_a, dfs_b
  retval,    \* the f64 the last returned dfs_a call returned
  retexpr,   \* the Expr the last returned dfs_b call returned
  out,       \* what the last finished solve / strategy call returned
  failed,    \* an assert! or unwrap has panicked
  bisected   \* Expr::bisect has run since the current top-level call began

solverVars == <<opts, mem, stack, retval, retexpr, out, failed, bisected>>

\* One run of Expr::bisect, step by step.
VARIABLES
  be,        \* self, the expression under bisection
  lo,        \* the local lo
  hi,        \* the local hi
  bpc        \* where the run stands: "lo", "hi", "search" (the loops), "done"

bisectVars == <<be, lo, hi, bpc>>

\* One use of the operators of the algebra.
VARIABLES
  ae1,        \* the left operand (self)
  ae2,        \* the right operand of + and min
  ascalar,    \* the f64 operand of * and /
  ax,         \* the argument of eval
  aop,        \* the operator applied: "add", "mul", "div", "min", or "none"
  ares        \* its result

algebraVars == <<ae1, ae2, ascalar, ax, aop, ares>>

vars == <<solverVars, bisectVars, algebraVars>>

\* The parts of the state a specification does not use stay as they are here.
SolverUnused ==
  /\ opts = [dice |-> 1, goal |-> 1]
  /\ mem = <<>>
  /\ stack = <<>>
  /\ retval = 0
  /\ retexpr = constant(0)
  /\ out = [op |-> "none", n |-> 0, d |-> 0, a |-> 0, b |-> 0]
  /\ failed = FALSE
  /\ bisected = FALSE
BisectUnused == be = constant(0) /\ lo = 0 /\ hi = 0 /\ bpc = "idle"
AlgebraUnused ==
  /\ ae1 = constant(0) /\ ae2 = constant(0) /\ ascalar = 0 /\ ax = 0
  /\ aop = "none" /\ ares = constant(0)

\* A frame: the function, its State argument, where it stands, and its locals
\* (dfs_a: s and the loop variable dice; dfs_b / strategy: stop).
Frame(fn, st, pc) ==
  [fn |-> fn, st |-> st, pc |-> pc, s |-> constant(0), dice |-> 0, stop |-> 0]

Top == stack[Len(stack)]
Pop == SubSeq(stack, 1, Len(stack) - 1)
\* The stack with its top frame replaced by f.
SetTop(f) == Append(Pop, f)

\* Solver::dice_n
dice_n == F(opts.dice)

\* An insert under the wrong key, the position after k.
MemInsertNextKey(m, k, r) ==
  [p \in DOMAIN m \cup {k + 1} |-> IF p = k + 1 THEN r ELSE m[p]]

\* self.mem.insert(k, r)
MemInsert(m, k, r) == [p \in DOMAIN m \cup {k} |-> IF p = k THEN r ELSE m[p]]

NoOut == [op |-> "none", n |-> 0, d |-> 0, a |-> 0, b |-> 0]

\* Solver::new, for every configuration within the bounds.
SolverInit ==
  /\ opts \in [dice : 1..MaxDice, goal : 1..MaxGoal]
  /\ mem = <<>>
  /\ stack = <<>>
  /\ retval = 0
  /\ retexpr = constant(0)
  /\ out = NoOut
  /\ failed = FALSE
  /\ bisected = FALSE

Idle == stack = <<>> /\ ~failed
Running(fn, pc) == stack # <<>> /\ ~failed /\ Top.fn = fn /\ Top.pc = pc

\* The goal test off by one: the goal position itself is not at the goal.
AtGoalOffByOne(st) == st.pos > opts.goal

\* state.pos >= self.opts.goal, the first test of dfs_a and of dfs_b.
AtGoal(st) == st.pos >= opts.goal

\* Solver::solve, up to its call of dfs_a.
CallSolve(n) ==
  /\ Idle
  /\ stack' = <<Frame("solve", StateNew(n), "wait"),
                Frame("a", StateNew(n), "entry")>>
  /\ bisected' = FALSE
  /\ out' = NoOut
  /\ UNCHANGED <<opts, mem, retval, retexpr, failed>>

\* Solver::solve, returning what dfs_a returned.
SolveReturn ==
  /\ Running("solve", "wait")
  /\ out' = [op |-> "solve", n |-> Top.st.pos, d |-> 0, a |-> retval, b |-> 0]
  /\ stack' = Pop
  /\ UNCHANGED <<opts, mem, retval, retexpr, failed, bisected>>

\* Solver::strategy, up to its call self.dfs_a(state.stop()).
CallStrategy(n, dice) ==
  /\ Idle
  /\ LET state == StateDice(StateNew(n), dice)
     IN  stack' = <<Frame("strategy", state, "wait_stop"),
                    Frame("a", StateStop(state), "entry")>>
  /\ bisected' = FALSE
  /\ out' = NoOut
  /\ UNCHANGED <<opts, mem, retval, retexpr, failed>>

\* Solver::strategy: stop_s is bound, self.dfs_b(state) is called.
StrategyAfterStop ==
  /\ Running("strategy", "wait_stop")
  /\ stack' = Append(SetTop([Top EXCEPT !.pc = "wait_total", !.stop = retval]),
                     Frame("b", Top.st, "entry"))
  /\ UNCHANGED <<opts, mem, retval, retexpr, out, failed, bisected>>

\* Solver::strategy: total_s = (the returned Expr).bisect(); return.
StrategyAfterTotal ==
  /\ Running("strategy", "wait_total")
  /\ out' = [op |-> "strategy", n |-> Top.st.original_pos,
             d |-> unwrap(Top.st.dice), a |-> bisect(retexpr), b |-> Top.stop]
  /\ bisected' = TRUE
  /\ stack' = Pop
  /\ UNCHANGED <<opts, mem, retval, retexpr, failed>>

\* Solver::dfs_a, from its entry to its first return or to the loop.
DfsAEntry ==
  /\ Running("a", "entry")
  /\ IF ~is_none(Top.st.dice)
       THEN /\ failed' = TRUE
            /\ UNCHANGED <<opts, mem, stack, retval, retexpr, out, bisected>>
       ELSE /\ IF AtGoal(Top.st)
                 THEN retval' = F(0) /\ stack' = Pop
                 ELSE IF Top.st.pos \in DOMAIN mem
                   THEN retval' = mem[Top.st.pos] /\ stack' = Pop
                   ELSE /\ stack' = SetTop([Top EXCEPT !.pc = "loop",
                                                       !.s = constant(F(1)),
                                                       !.dice = 1])
                        /\ UNCHANGED retval
            /\ UNCHANGED <<opts, mem, retexpr, out, failed, bisected>>

\* Solver::dfs_a, at the head of `for dice in 1..=self.opts.dice`: the call
\* self.dfs_b(state.dice(dice)), or past the loop the bisect, insert, return.
DfsALoop ==
  /\ Running("a", "loop")
  /\ IF Top.dice <= opts.dice
       THEN /\ stack' = Append(SetTop([Top EXCEPT !.pc = "wait"]),
                               Frame("b", StateDice(Top.st, Top.dice), "entry"))
            /\ UNCHANGED <<mem, retval, bisected>>
       ELSE LET r == bisect(Top.s)
            IN  /\ mem' = MemInsert(mem, Top.st.pos, r)
                /\ retval' = r
                /\ bisected' = TRUE
                /\ stack' = Pop
  /\ UNCHANGED <<opts, retexpr, out, failed>>

\* Solver::dfs_a: s = s + (the returned Expr) / self.dice_n(), next dice.
DfsAResume ==
  /\ Running("a", "wait")
  /\ stack' = SetTop([Top EXCEPT !.pc = "loop",
                                 !.s = add(Top.s, div(retexpr, dice_n)),
                                 !.dice = Top.dice + 1])
  /\ UNCHANGED <<opts, mem, retval, retexpr, out, failed, bisected>>

\* Solver::dfs_b, from its entry to its first return or to the call
\* self.dfs_a(state.stop()).
DfsBEntry ==
  /\ Running("b", "entry")
  /\ IF ~is_some(Top.st.dice)
       THEN /\ failed' = TRUE
            /\ UNCHANGED <<opts, mem, stack, retval, retexpr, out, bisected>>
       ELSE /\ IF AtGoal(Top.st)
                 THEN retexpr' = constant(F(0)) /\ stack' = Pop
                 ELSE /\ stack' = Append(SetTop([Top EXCEPT !.pc = "wait_stop"]),
                                         Frame("a", StateStop(Top.st), "entry"))
                      /\ UNCHANGED retexpr
            /\ UNCHANGED <<opts, mem, retval, out, failed, bisected>>

\* Solver::dfs_b: stop is bound, self.dfs_b(state.go_success()) is called.
DfsBAfterStop ==
  /\ Running("b", "wait_stop")
  /\ IF is_none(Top.st.dice)
       THEN /\ failed' = TRUE
            /\ UNCHANGED stack
       ELSE /\ stack' = Append(SetTop([Top EXCEPT !.pc = "wait_go",
                                                  !.stop = retval]),
                               Frame("b", go_success(Top.st), "entry"))
            /\ UNCHANGED failed
  /\ UNCHANGED <<opts, mem, retval, retexpr, out, bisected>>

\* dfs_b without the choice to stop: it returns go, not go.min(stop).
GoWithoutMin(go_succ, stop, n) ==
  LET go_fail == add(self_consistent(F(1)), constant(F(1)))
  IN  add(div(go_succ, n), mul(go_fail, FDiv(n - F(1), n)))

\* The Expr dfs_b builds from go_success and stop, for dice count n.
GoMin(go_succ, stop, n) ==
  LET go_fail == add(self_consistent(F(1)), constant(F(1)))
      go == add(div(go_succ, n), mul(go_fail, FDiv(n - F(1), n)))
  IN  min(go, constant(stop))

\* Solver::dfs_b: go_success is bound; build go and return go.min(stop).
DfsBAfterGo ==
  /\ Running("b", "wait_go")
  /\ retexpr' = GoMin(retexpr, Top.stop, dice_n)
  /\ stack' = Pop
  /\ UNCHANGED <<opts, mem, retval, out, failed, bisected>>

\* A step of the running call.
Step ==
  \/ SolveReturn
  \/ StrategyAfterStop
  \/ StrategyAfterTotal
  \/ DfsAEntry
  \/ DfsALoop
  \/ DfsAResume
  \/ DfsBEntry
  \/ DfsBAfterStop
  \/ DfsBAfterGo

\* The positions and faces the callers pass: main passes 0..goal-1 and
\* 1..=dice; positions at and past the goal are callable too.
CallPositions == 0..(opts.goal + 1)
CallFaces == 1..opts.dice

Init == SolverInit /\ BisectUnused /\ AlgebraUnused

\* A step of the solver leaves the rest of the state alone.
SolverOnly == UNCHANGED <<bisectVars, algebraVars>>

Next ==
  \/ \E n \in CallPositions : CallSolve(n) /\ SolverOnly
  \/ \E n \in CallPositions : \E d \in CallFaces :
        CallStrategy(n, d) /\ SolverOnly
  \/ SolveReturn /\ SolverOnly
  \/ StrategyAfterStop /\ SolverOnly
  \/ StrategyAfterTotal /\ SolverOnly
  \/ DfsAEntry /\ SolverOnly
  \/ DfsALoop /\ SolverOnly
  \/ DfsAResume /\ SolverOnly
  \/ DfsBEntry /\ SolverOnly
  \/ DfsBAfterStop /\ SolverOnly
  \/ DfsBAfterGo /\ SolverOnly

\* The solver: any sequence of solve and strategy calls on one Solver.
Spec == Init /\ [][Next]_vars

\* The scheduling of a single-threaded program: a running call keeps running.
FairSpec == Spec /\ WF_solverVars(Step)

\* ------------------------------------------------------ solver properties

\* What solve(p) returns once p is solved: 0.0 at and past the goal, the
\* stored value below it.
SolvedValue(p) == IF p >= opts.goal THEN F(0) ELSE mem[p]
Solved(p) == p >= opts.goal \/ p \in DOMAIN mem

\* The frames of dfs_a and dfs_b on the stack, by index.
FramesOf(fn) == {i \in 1..Len(stack) : stack[i].fn = fn}

\* C1: for every configuration and every position p with p + 1 <= G, the value
\* solve(p) returns is at least the value solve(p + 1) returns: whenever a
\* solve(p) has returned, p + 1 is solved and its value is not larger, and
\* the same holds between any two neighbouring entries of the memo table.
C1_SolveMonotone ==
  /\ (out.op = "solve" /\ out.n + 1 <= opts.goal) =>
       /\ Solved(out.n + 1)
       /\ out.a >= SolvedValue(out.n + 1)
  /\ \A p \in DOMAIN mem : Solved(p + 1) => mem[p] >= SolvedValue(p + 1)

\* C1's case: a board of at least three positions, two or more faces, every
\* position solved, solve(0) returned, and the values strictly decreasing.
C1_Witness ==
  /\ opts.goal >= 3 /\ opts.dice >= 2
  /\ DOMAIN mem = 0..(opts.goal - 1)
  /\ out.op = "solve" /\ out.n = 0
  /\ \A p \in 0..(opts.goal - 1) : mem[p] > SolvedValue(p + 1)

\* C2: at a position at or past the goal, dfs_a returns 0.0 in one step
\* (no expression, no bisect, no memo change, no call), dfs_b returns
\* constant(0.0) in one step without a call, and a whole solve(p) with
\* p >= G never changes the memo table, never bisects and returns 0.0.
C2_Step ==
  /\ (Running("a", "entry") /\ is_none(Top.st.dice) /\ Top.st.pos >= opts.goal) =>
       /\ retval' = 0
       /\ stack' = Pop
       /\ mem' = mem
       /\ bisected' = bisected
  /\ (Running("b", "entry") /\ is_some(Top.st.dice) /\ Top.st.pos >= opts.goal) =>
       /\ retexpr' = [tag |-> "Sum", one |-> 0, zero |-> 0, nonlinear |-> <<>>]
       /\ stack' = Pop
       /\ mem' = mem
       /\ bisected' = bisected
  /\ (stack # <<>> /\ stack[1].fn = "solve" /\ stack[1].st.pos >= opts.goal) =>
       /\ mem' = mem
       /\ ~bisected'
       /\ Len(stack') <= 2
       /\ stack' = <<>> => (out'.op = "solve" /\ out'.a = 0)

C2_AtGoalZero == [][C2_Step]_vars

\* C2's case: with a non-empty memo table, a solve(p) with p >= G has
\* returned 0.0 and the last dfs_b call returned at the goal.
C2_Witness ==
  /\ mem # <<>>
  /\ out.op = "solve" /\ out.n >= opts.goal /\ out.a = 0
  /\ ~bisected

\* dfs_a and dfs_b without the memo table: the value of a position computed
\* from scratch, whatever was called before.
RECURSIVE FreshA(_)
RECURSIVE FreshB(_)
RECURSIVE FreshSum(_, _, _)
FreshSum(st, s, dice) ==
  IF dice > opts.dice THEN s
  ELSE FreshSum(st, add(s, div(FreshB(StateDice(st, dice)), dice_n)), dice + 1)
FreshA(st) ==
  IF AtGoal(st) THEN F(0) ELSE bisect(FreshSum(st, constant(F(1)), 1))
FreshB(st) ==
  IF AtGoal(st) THEN constant(F(0))
  ELSE GoMin(FreshB(go_success(st)), FreshA(StateStop(st)), dice_n)

\* C6, the states: every key of the memo table is a position in [0, G), and
\* a solve(p) that has returned returned the stored value.
C6_State ==
  /\ DOMAIN mem \subseteq 0..(opts.goal - 1)
  /\ (out.op = "solve" /\ out.n < opts.goal) =>
       (out.n \in DOMAIN mem /\ out.a = mem[out.n])

\* C6, the steps: no entry is removed or changed, and every entry a step adds
\* is the value of its position computed from scratch, so it does not depend
\* on the calls made before.
C6_Step ==
  /\ \A p \in DOMAIN mem : p \in DOMAIN mem' /\ mem'[p] = mem[p]
  /\ \A p \in DOMAIN mem' \ DOMAIN mem : mem'[p] = FreshA(StateNew(p))

\* C6: over any sequence of solve and strategy calls the memo table only
\* grows, holds positions below the goal only, and fixes what solve returns.
C6_MemoPermanent == [](C6_State) /\ [][C6_Step]_vars

\* C6's case: a solve(p) answered from the memo table: p was stored before
\* the call began (nothing was bisected during it) and other entries exist.
C6_Witness ==
  /\ out.op = "solve" /\ out.n < opts.goal
  /\ ~bisected /\ stack = <<>>
  /\ Cardinality(DOMAIN mem) >= 3
  /\ opts.dice >= 2

\* Sample values of the free variable: 0.0, 0.5, 1.0, 1.5, ..., 8.0.
SampleX == {k * Half : k \in 0..16}

\* The expression e takes the same value at every sample x.
ConstantInX(e) == \A x \in SampleX : eval(e, x) = eval(e, 0)

\* dfs_a frames whose loop is over: their s is what bisect is about to get.
AtBisect == {i \in FramesOf("a") : stack[i].pc = "loop" /\ stack[i].dice > opts.dice}

\* C7 as stated: the expression dfs_a hands to bisect does not depend on the
\* free variable.
C7_NotSelfReferential == \A i \in AtBisect : ConstantInX(stack[i].s)

\* C7 as amended: the expression dfs_a hands to bisect is a Sum whose own
\* coefficient `one` is 0 and whose constant is 1.0, but it depends on the
\* free variable through its Min children whenever D >= 2 and p + 1 < G;
\* it is constant in x exactly when D = 1 or p = G - 1.
C7_SelfReferentialThroughMin ==
  \A i \in AtBisect :
    LET s == stack[i].s
        p == stack[i].st.pos
    IN  /\ s.tag = "Sum" /\ s.one = 0 /\ s.zero = F(1)
        /\ \A k \in 1..Len(s.nonlinear) : s.nonlinear[k].tag = "Min"
        /\ ConstantInX(s) <=> (opts.dice = 1 \/ p = opts.goal - 1)
        /\ (opts.dice >= 2 /\ p + 1 < opts.goal) => eval(s, F(0)) < eval(s, F(8))

\* C7's case: dfs_a is about to bisect an expression that depends on x.
C7_Witness ==
  \E i \in AtBisect :
    /\ opts.dice >= 2 /\ stack[i].st.pos + 1 < opts.goal
    /\ ~ConstantInX(stack[i].s)
    /\ stack[i].s.one = 0

\* The calls dfs_a and dfs_b make: frame i + 1 is called by frame i.
CallPairs == {i \in 1..(Len(stack) - 1) : stack[i].fn \in {"a", "b"}}

\* The callee's position is strictly larger than the caller's (for dfs_b's
\* stop call: than the caller's original position).
CallAdvances(i) ==
  LET caller == stack[i]
      callee == stack[i + 1]
  IN  IF caller.fn = "b" /\ callee.fn = "a"
        THEN callee.st.pos > caller.st.original_pos
        ELSE callee.st.pos > caller.st.pos

\* No two dfs_a frames on the stack are for the same position.
NoReentry ==
  \A i, j \in FramesOf("a") : i # j => stack[i].st.pos # stack[j].st.pos

C9_State == (\A i \in CallPairs : CallAdvances(i)) /\ NoReentry

\* C9: every recursive call of dfs_a and dfs_b is on a strictly larger
\* position, dfs_a is never re-entered for a position in progress, and every
\* call of solve or strategy terminates.
C9_AdvancesAndTerminates == [](C9_State) /\ ((stack # <<>>) ~> (stack = <<>>))

\* C9's case: all three kinds of recursive call are on the stack at once.
C9_Witness ==
  /\ \E i \in CallPairs : stack[i].fn = "a" /\ stack[i + 1].fn = "b"
  /\ \E i \in CallPairs : stack[i].fn = "b" /\ stack[i + 1].fn = "a"
  /\ \E i \in CallPairs : stack[i].fn = "b" /\ stack[i + 1].fn = "b"
  /\ Len(stack) >= 6

\* A dfs_a argument is resting.
Resting(st) == is_none(st.dice) /\ st.pos = st.original_pos

\* A dfs_b argument is mid-roll: Some(k), k >= 1, a positive multiple of k
\* past its original position.
MidRoll(st) ==
  /\ is_some(st.dice)
  /\ unwrap(st.dice) >= 1
  /\ st.pos > st.original_pos
  /\ (st.pos - st.original_pos) % unwrap(st.dice) = 0

\* The original position of a dfs_b frame is the position of the roll: that
\* of the dfs_a, dfs_b or strategy frame that called it.
RollKept(i) ==
  LET caller == stack[i - 1]
      callee == stack[i]
  IN  IF caller.fn = "a"
        THEN callee.st.original_pos = caller.st.pos
        ELSE /\ callee.st.original_pos = caller.st.original_pos
             /\ callee.st.dice = caller.st.dice

\* C10: every state passed to dfs_a is resting, every state passed to dfs_b
\* is mid-roll with its original position that of the roll, and no assert!
\* or unwrap panics.
C10_StatesWellFormed ==
  /\ \A i \in FramesOf("a") : Resting(stack[i].st)
  /\ \A i \in FramesOf("b") : MidRoll(stack[i].st) /\ RollKept(i)
  /\ ~failed

\* C10's case: a dfs_b frame reached by go_success (two steps of its die past
\* the roll) has called dfs_a on the stopped state.
C10_Witness ==
  \E i \in FramesOf("b") :
    /\ stack[i].st.pos - stack[i].st.original_pos = 2 * unwrap(stack[i].st.dice)
    /\ i < Len(stack)
    /\ stack[i + 1].fn = "a"
    /\ stack[i + 1].st.pos = stack[i].st.pos

\* ------------------------------------------------- Expr::bisect, by steps

\* The f64 literal n/d (0.4 is Dec(4, 10)).
Dec(n, d) == RoundDiv(n * Scale, d)

\* tests::linear
linear(k, a) == add(self_consistent(k), constant(a))

\* The expression of tests::bisect.
TestExpr ==
  LET f == min(linear(Dec(1, 2), Dec(1, 2)), linear(F(0), F(2)))
      g == min(linear(Dec(4, 10), F(1)), linear(F(0), F(3)))
      h == min(linear(Dec(6, 10), F(2)), linear(F(0), Dec(3, 2)))
  IN  div(add(add(f, g), h), F(3))

\* The expressions bisected: the test's, the constant 0.0 that strategy
\* bisects at the goal, lines of slope from -100 to 0.6 through constants
\* off the binary grid, and each line capped by a constant.
BisectSlopes == {F(-100), F(-8), -Half, F(0), Half, Dec(6, 10)}
BisectConsts == {Dec(1, 3), Dec(7, 3), F(3)}
BisectCaps == {Dec(2, 3), Dec(5, 2)}
BisectExprs ==
  {TestExpr, constant(F(0))}
    \cup {linear(k, c) : k \in BisectSlopes, c \in BisectConsts}
    \cup {min(linear(k, c), constant(d)) :
            k \in BisectSlopes, c \in BisectConsts, d \in BisectCaps}

\* let mut lo = 0.5, before the first loop.
BisectInit ==
  /\ SolverUnused /\ AlgebraUnused
  /\ be \in BisectExprs
  /\ lo = Half
  /\ hi = 0
  /\ bpc = "lo"

\* One turn of `while self.eval(lo) < lo`, or its end and let mut hi = 1.0.
BisectLo ==
  /\ bpc = "lo"
  /\ IF LoContinues(be, lo)
       THEN lo' = lo \div 2 /\ UNCHANGED <<hi, bpc>>
       ELSE hi' = F(1) /\ bpc' = "hi" /\ UNCHANGED lo
  /\ UNCHANGED be

\* One turn of `while hi < self.eval(hi)`, or its end.
BisectHi ==
  /\ bpc = "hi"
  /\ IF HiContinues(be, hi)
       THEN hi' = hi * 2 /\ UNCHANGED <<lo, bpc>>
       ELSE bpc' = "search" /\ UNCHANGED <<lo, hi>>
  /\ UNCHANGED be

\* One turn of `while hi - lo > 1e-12`, or its end and the return of hi.
BisectSearch ==
  /\ bpc = "search"
  /\ IF SearchContinues(lo, hi)
       THEN /\ lo' = SearchStep(be, lo, hi)[1]
            /\ hi' = SearchStep(be, lo, hi)[2]
            /\ UNCHANGED bpc
       ELSE bpc' = "done" /\ UNCHANGED <<lo, hi>>
  /\ UNCHANGED be

BisectNext ==
  \/ BisectLo /\ UNCHANGED <<solverVars, algebraVars>>
  \/ BisectHi /\ UNCHANGED <<solverVars, algebraVars>>
  \/ BisectSearch /\ UNCHANGED <<solverVars, algebraVars>>

\* One run of bisect on each of the expressions.
BisectSpec == BisectInit /\ [][BisectNext]_vars

\* The run by steps returns what the operator bisect computes.
BisectAgrees == bpc = "done" => hi = bisect(be)

\* g(v) = eval(e, v) - v
G(e, v) == eval(e, v) - v

\* The sample points of g: 0.0, 0.25, ..., 8.0.
GridStep == Scale \div 4
GridMax == F(8)
Grid == {k * GridStep : k \in 0..(GridMax \div GridStep)}

\* g is non-increasing over the grid, positive at 0 and negative at its end:
\* it crosses zero once, at some x > 0.
SingleCrossing(e) ==
  /\ G(e, 0) > 0
  /\ G(e, GridMax) < 0
  /\ \A v \in Grid \ {GridMax} : G(e, v) >= G(e, v + GridStep)

\* A bound on how fast e can change: the largest |slope| of its pieces.
RECURSIVE SlopeBound(_)
RECURSIVE SlopeSum(_, _)
SlopeSum(nonlinear, i) ==
  IF i > Len(nonlinear) THEN 0
  ELSE SlopeBound(nonlinear[i]) + SlopeSum(nonlinear, i + 1)
SlopeBound(e) ==
  IF e.tag = "Sum" THEN Abs(e.one) + SlopeSum(e.nonlinear, 1)
  ELSE LET a == SlopeBound(e.a)
           b == SlopeBound(e.b)
       IN  IF a >= b THEN a ELSE b

\* The slope up to which the width BisectTol of the last bracket keeps
\* |eval(e, r) - r| below FixTol (half of FixTol / BisectTol; 5e5 for the
\* program's 1e-6 and 1e-12).
GentleSlope == F(FixTol \div (2 * BisectTol))

\* r = bisect(e) is an approximate fixed point of e.
FixedPoint(e, r) == Abs(eval(e, r) - r) < FixTol

C8_State ==
  bpc \in {"search", "done"} =>
    (eval(be, lo) >= lo /\ eval(be, hi) <= hi /\ lo <= hi)

\* C8, the steps: the interval never grows.
C8_Step == bpc = "search" => hi' - lo' <= hi - lo

\* C8: the bracket invariant of the binary search.
C8_BracketInvariant == [](C8_State) /\ [][C8_Step]_vars

\* C8's case: the search has ended on a bracket both of whose ends it moved,
\* with g positive at lo and negative at hi.
C8_Witness ==
  /\ bpc = "done"
  /\ eval(be, lo) > lo /\ eval(be, hi) < hi
  /\ hi - lo <= BisectTol
  /\ lo > F(2) /\ hi < F(8)

\* ------------------------------------------------ the algebra, one use

\* The operands: Sum and Min nodes, with nested children of both kinds.
AlgMinA == min(linear(Half, Half), constant(F(2)))
AlgMinB == min(constant(F(1)), linear(F(1), -F(1)))
AlgSumA == add(linear(Dec(1, 3), Dec(1, 10)), AlgMinA)
AlgExprs ==
  { constant(Dec(1, 3)),
    linear(Dec(1, 3), F(1)),
    AlgMinA,
    AlgSumA,
    min(AlgSumA, linear(-Half, F(3))),
    add(AlgMinA, AlgMinB),
    SumE(Half, F(1), <<constant(Dec(1, 3)), AlgMinB>>) }

\* The scalars of * and / (none is 0) and the arguments of eval.
AlgScalars == {F(-2), F(-1), Dec(1, 2), F(2), F(3)}
AlgArgs == {-F(1), F(0), Dec(3, 2), F(3), Dec(10, 3)}

AlgebraInit ==
  /\ SolverUnused /\ BisectUnused
  /\ ae1 \in AlgExprs
  /\ ae2 \in AlgExprs
  /\ ascalar \in AlgScalars
  /\ ax \in AlgArgs
  /\ aop = "none"
  /\ ares = constant(0)

\* e1 + e2
AlgAdd ==
  /\ aop = "none"
  /\ aop' = "add"
  /\ ares' = add(ae1, ae2)
  /\ UNCHANGED <<ae1, ae2, ascalar, ax, solverVars, bisectVars>>

\* e1 * s
AlgMul ==
  /\ aop = "none"
  /\ aop' = "mul"
  /\ ares' = mul(ae1, ascalar)
  /\ UNCHANGED <<ae1, ae2, ascalar, ax, solverVars, bisectVars>>

\* e1 / s
AlgDiv ==
  /\ aop = "none"
  /\ aop' = "div"
  /\ ares' = div(ae1, ascalar)
  /\ UNCHANGED <<ae1, ae2, ascalar, ax, solverVars, bisectVars>>

\* e1.min(e2)
AlgMin ==
  /\ aop = "none"
  /\ aop' = "min"
  /\ ares' = min(ae1, ae2)
  /\ UNCHANGED <<ae1, ae2, ascalar, ax, solverVars, bisectVars>>

AlgebraNext == AlgAdd \/ AlgMul \/ AlgDiv \/ AlgMin

\* One use of one operator on each choice of operands.
AlgebraSpec == AlgebraInit /\ [][AlgebraNext]_vars

\* The number of Sum nodes of e, and whether e has no Min node.
RECURSIVE SumNodes(_)
RECURSIVE SumNodesOf(_, _)
SumNodesOf(nonlinear, i) ==
  IF i > Len(nonlinear) THEN 0
  ELSE SumNodes(nonlinear[i]) + SumNodesOf(nonlinear, i + 1)
SumNodes(e) ==
  IF e.tag = "Sum" THEN 1 + SumNodesOf(e.nonlinear, 1)
  ELSE SumNodes(e.a) + SumNodes(e.b)

RECURSIVE MinFree(_)
MinFree(e) ==
  e.tag = "Sum" /\ \A i \in 1..Len(e.nonlinear) : MinFree(e.nonlinear[i])

\* The rounding a division of e can add up to at argument v: each Sum node
\* rounds its two coefficients and one product.
DivSlack(e, v) == SumNodes(e) * (Abs(v) \div Scale + 3) + 1

\* C4 as stated: for every e, every s # 0 and every x,
\* eval(e / s, x) = eval(e, x) / s.
C4_DivHomomorphism ==
  aop = "div" => eval(ares, ax) = FDiv(eval(ae1, ax), ascalar)

\* C4 as amended: for s > 0 (and for every s # 0 when e has no Min node),
\* eval(e / s, x) equals eval(e, x) / s up to the rounding of the divisions.
C4_DivHomomorphismPositive ==
  (aop = "div" /\ (ascalar > 0 \/ MinFree(ae1))) =>
    Abs(eval(ares, ax) - FDiv(eval(ae1, ax), ascalar)) <= DivSlack(ae1, ax)

\* C4's case: a Min over a Sum with a Min child has been divided by 3.0 and
\* evaluated away from 0.
C4_Witness ==
  /\ aop = "div" /\ ascalar = F(3) /\ ax = Dec(3, 2)
  /\ ae1.tag = "Min" /\ ae1.a.tag = "Sum" /\ Len(ae1.a.nonlinear) >= 1
  /\ eval(ae1, ax) > F(1)
  /\ eval(ares, ax) < eval(ae1, ax)

\* What an operand contributes to the children of a sum: its own children
\* if it is a Sum, itself if it is a Min.
Contributes(e) == IF e.tag = "Sum" THEN e.nonlinear ELSE <<e>>
Count(c, seq) == Cardinality({i \in 1..Len(seq) : seq[i] = c})
SameChildren(seq, s1, s2) ==
  /\ Len(seq) = Len(s1) + Len(s2)
  /\ \A i \in 1..Len(seq) :
       Count(seq[i], seq) = Count(seq[i], s1) + Count(seq[i], s2)

\* e1 + e2 is a Sum that holds every child of both operands once.
AddKeepsChildren ==
  /\ ares.tag = "Sum"
  /\ SameChildren(ares.nonlinear, Contributes(ae1), Contributes(ae2))

\* C5 as stated: eval(e1 + e2, x) = eval(e1, x) + eval(e2, x), and the result
\* is a Sum with no child dropped or duplicated.
C5_AddHomomorphism ==
  aop = "add" =>
    /\ eval(ares, ax) = eval(ae1, ax) + eval(ae2, ax)
    /\ AddKeepsChildren

\* C5 as amended: the same up to floating-point rounding (one unit of
\* resolution here: Sum + Sum multiplies x by the sum of the coefficients
\* instead of adding the two products); the structure is exact.
C5_AddHomomorphismRounded ==
  aop = "add" =>
    /\ Abs(eval(ares, ax) - (eval(ae1, ax) + eval(ae2, ax))) <= 1
    /\ AddKeepsChildren

\* C5's case: two Sums with children and non-zero coefficients are added.
C5_Witness ==
  /\ aop = "add"
  /\ ae1.tag = "Sum" /\ ae2.tag = "Sum"
  /\ ae1.one # 0 /\ ae2.one # 0
  /\ Len(ae1.nonlinear) >= 1 /\ Len(ae2.nonlinear) >= 1
  /\ Len(ares.nonlinear) = Len(ae1.nonlinear) + Len(ae2.nonlinear)
  /\ ax # 0

=============================================================================
